---- MODULE Spec2Model ----
(***************************************************************************)
(* Async resource hook layer of the frontend: useApiCall (Call            *)
(* Controller), useApiPolling (Poller) and useInfiniteScroll (Paginator),  *)
(* as state machines over the React state cells, refs, interval timers     *)
(* and in-flight promises they own; and the REST wrapper apiRequest of     *)
(* utils/api.js over the stored token and the requests handed to fetch.    *)
(*                                                                         *)
(* JavaScript values are written as strings: "null" is null, "undefined"   *)
(* is undefined, "0" is the number zero, "r1" is a truthy result.          *)
(***************************************************************************)
EXTENDS Integers, Sequences, FiniteSets, TLC

\* ------------------------------------------------------------------ bounds
MaxTime == 3
MaxCalls == 2
MaxCacheTime == 1
MaxTimers == 4
MaxPolls == 3
MaxFetches == 4
MaxRenders == 2
MaxRequests == 2

\* ------------------------------------------------------- JavaScript values
JSNull == "null"
JSUndefined == "undefined"
Results == {"0", "r1"}
Errors == {"e1"}
AuthError == "Authentication required"

\* JavaScript truthiness of the values above (operand of the ! operator).
Falsy(v) == v \in {JSNull, JSUndefined, "0"}

\* One argument of execute(...params): a tagged value; an object keeps its
\* own-property order, as JavaScript objects do.
Arg(t, kv) == [t |-> t, kv |-> kv]
ArgNull == Arg("null", <<>>)
ArgUndefined == Arg("undefined", <<>>)
ObjAB == Arg("object", << <<"a", "1">>, <<"b", "2">> >>)

\* The rest-parameter arrays execute is called with in this model.
ParamTuples == { <<ArgNull>>, <<ArgUndefined>>, <<ObjAB>> }

\* cacheRef.current.params === null
NullParams == << Arg("nullref", <<>>) >>

\* Structural equality of two arguments: same type, same key/value pairs,
\* whatever the order of the keys.
ArgDeepEqual(a, b) ==
    /\ a.t = b.t
    /\ {a.kv[i] : i \in DOMAIN a.kv} = {b.kv[i] : i \in DOMAIN b.kv}

DeepEqual(p, q) ==
    /\ Len(p) = Len(q)
    /\ \A i \in DOMAIN p : ArgDeepEqual(p[i], q[i])

\* JSON.stringify of an object's properties, in property order.
RECURSIVE StringifyProps(_)
StringifyProps(kv) ==
    IF kv = <<>> THEN <<>>
    ELSE << kv[1][1], ":", kv[1][2] >>
         \o (IF Len(kv) > 1 THEN <<",">> ELSE <<>>)
         \o StringifyProps(Tail(kv))

\* JSON.stringify of one array element: undefined and null both print "null".
StringifyArg(a) ==
    IF a.t \in {"null", "undefined"} THEN <<"null">>
    ELSE <<"{">> \o StringifyProps(a.kv) \o <<"}">>

RECURSIVE StringifyElems(_)
StringifyElems(p) ==
    IF p = <<>> THEN <<>>
    ELSE StringifyArg(p[1])
         \o (IF Len(p) > 1 THEN <<",">> ELSE <<>>)
         \o StringifyElems(Tail(p))

\* JSON.stringify(params), as a sequence of output tokens.
JSONstringify(p) ==
    IF p = NullParams THEN <<"null">>
    ELSE <<"[">> \o StringifyElems(p) \o <<"]">>

\* ------------------------------------------------------------------- state
VARIABLES
    \* useApiCall
    data, loading, error,       \* useState cells
    cacheRef,                   \* useRef {timestamp, data, params}
    cache, cacheTime,           \* options
    requiresAuth,               \* apiFunction.requiresAuth
    isAuthenticated,            \* useAuth().isAuthenticated
    now,                        \* Date.now()
    inflight,                   \* pending apiFunction(...params) promises
    calls,                      \* number of execute() calls made
    opCalls,                    \* number of apiFunction invocations
    onSuccessCalls, onErrorCalls,
    last,                       \* the last hook operation: its arguments,
                                \* whether it passed the gate and invoked the
                                \* operation, the value it returned or threw;
                                \* for a successful completion, whether it
                                \* overtook a call started earlier and still
                                \* pending, and whether (late) it is the
                                \* earliest-started pending call completing
                                \* right after a completion that overtook it
                                \* with another result
    lastOk,                     \* the last successful completion
    loadOnMount,                \* option
    attached,                   \* the effects of the first render have run
    autoCalls,                  \* execute() calls made by the loadOnMount effect
    renders,                    \* re-renders of the owning component
    \* useApiPolling
    pData, pLoading, pError,    \* useState cells
    isPolling,                  \* useState cell, latest value
    rIsPolling,                 \* isPolling as captured by the last render
    timerRef,                   \* useRef: timer id or 0 (null)
    liveTimers,                 \* setInterval timers not yet cleared, each
                                \* with the isAuthenticated its callback saw
    immediate, stopOnError,     \* options
    phase,                      \* "created" | "mounted" | "unmounted"
    pInflight,                  \* number of pending apiFunction() promises
    nextTimer, polls,           \* timers created, executePoll invocations
    pLast,                      \* the last Poller operation and its outcome
    \* useInfiniteScroll
    items,                      \* useState cell: the pages accumulated, each
                                \* as [page, n]: n items of page number page
    page, hasMore,              \* useState cells
    sLoading, sError,           \* useState cells loading and error
    rItemsLen, rPage, rHasMore, rLoading,
                                \* items.length, page, hasMore and loading as
                                \* captured by the callbacks of the last render
    sInflight,                  \* pending apiFunction(params) promises
    sCalls, sFetches,           \* loadMore/refresh calls, apiFunction calls
    sLast,                      \* the last Paginator operation and its outcome
    scenario,                   \* progress along refresh, loadMore, loadMore
                                \* answered 10, 10 and 5 items of 25, or -1
    serial,                     \* every loadMore/refresh call so far was made
                                \* with no fetch pending, after the re-render
    \* apiRequest (utils/api.js)
    token,                      \* localStorage item authToken, or NoToken
    aPending,                   \* requests handed to fetch, not yet answered
    aReq,                       \* the last request handed to fetch
    aLast,                      \* the last answer and what apiRequest made of it
    aCount                      \* number of apiRequest calls

mountVars == << loadOnMount, attached, autoCalls, renders >>
callVars == << data, loading, error, cacheRef, cache, cacheTime, now,
               inflight, calls, opCalls, onSuccessCalls, onErrorCalls,
               last, lastOk, mountVars >>
pollVars == << pData, pLoading, pError, isPolling, rIsPolling, timerRef,
               liveTimers, immediate, stopOnError, phase, pInflight,
               nextTimer, polls, pLast >>
pageVars == << items, page, hasMore, sLoading, sError, rItemsLen, rPage,
               rHasMore, rLoading, sInflight, sCalls, sFetches, sLast,
               scenario, serial >>
apiVars == << token, aPending, aReq, aLast, aCount >>
vars == << callVars, pollVars, pageVars, apiVars, requiresAuth, isAuthenticated >>

\* ============================================================ useApiCall
EmptyCache == [timestamp |-> 0, data |-> JSNull, params |-> NullParams]

NoLast == [op |-> "none", prev |-> "none", overtook |-> FALSE, late |-> FALSE,
           params |-> <<>>,
           prevParams |-> <<>>, gate |-> FALSE,
           invoked |-> FALSE, ret |-> JSUndefined, threw |-> FALSE]

NoOk == [valid |-> FALSE, params |-> <<>>, result |-> JSNull, time |-> 0]

Record(op, params, gate, invoked, ret, threw) ==
    [op |-> op, prev |-> last.op, overtook |-> FALSE, late |-> FALSE,
     params |-> params,
     prevParams |-> IF last.op = "clearCache" THEN last.params ELSE <<>>,
     gate |-> gate,
     invoked |-> invoked, ret |-> ret, threw |-> threw]

CallInit ==
    /\ data = JSNull
    /\ loading = FALSE
    /\ error = JSNull
    /\ cacheRef = EmptyCache
    /\ cache \in BOOLEAN
    /\ cacheTime \in 1..MaxCacheTime
    /\ now = 1
    /\ inflight = {}
    /\ calls = 0
    /\ opCalls = 0
    /\ onSuccessCalls = 0
    /\ onErrorCalls = 0
    /\ last = NoLast
    /\ lastOk = NoOk

isCacheValid(params) ==
    IF ~cache THEN FALSE
    ELSE IF cacheRef.timestamp = 0 \/ Falsy(cacheRef.data) THEN FALSE
    ELSE IF now - cacheRef.timestamp > cacheTime THEN FALSE
    ELSE JSONstringify(params) = JSONstringify(cacheRef.params)

clearCache ==
    cacheRef' = EmptyCache

\* if (apiFunction.requiresAuth && !isAuthenticated) { ... return; }
ExecuteAuthFail(params) ==
    /\ error' = AuthError
    /\ onErrorCalls' = onErrorCalls + 1
    /\ last' = Record("execute", params, FALSE, FALSE, JSUndefined, FALSE)
    /\ UNCHANGED << data, loading, cacheRef, inflight, opCalls, onSuccessCalls >>

\* if (isCacheValid(params)) { setData(cached); return cached; }
ExecuteCacheHit(params) ==
    /\ data' = cacheRef.data
    /\ last' = Record("execute", params, TRUE, FALSE, cacheRef.data, FALSE)
    /\ UNCHANGED << loading, error, cacheRef, inflight, opCalls,
                    onSuccessCalls, onErrorCalls >>

\* setLoading(true); setError(null); ... await apiFunction(...params)
ExecuteInvoke(params) ==
    /\ loading' = TRUE
    /\ error' = JSNull
    /\ inflight' = inflight \cup {[id |-> calls + 1, params |-> params]}
    /\ opCalls' = opCalls + 1
    /\ last' = Record("execute", params, TRUE, TRUE, JSUndefined, FALSE)
    /\ UNCHANGED << data, cacheRef, onSuccessCalls, onErrorCalls >>

\* execute consulting the cache before the authentication gate.
execute_CacheFirst(params) ==
    /\ calls < MaxCalls
    /\ calls' = calls + 1
    /\ IF isCacheValid(params) THEN ExecuteCacheHit(params)
       ELSE IF requiresAuth /\ ~isAuthenticated THEN ExecuteAuthFail(params)
       ELSE ExecuteInvoke(params)
    /\ UNCHANGED << cache, cacheTime, now, lastOk, requiresAuth,
                    isAuthenticated, pollVars, pageVars, apiVars, mountVars >>

execute(params) ==
    /\ calls < MaxCalls
    /\ calls' = calls + 1
    /\ IF requiresAuth /\ ~isAuthenticated THEN ExecuteAuthFail(params)
       ELSE IF isCacheValid(params) THEN ExecuteCacheHit(params)
       ELSE ExecuteInvoke(params)
    /\ UNCHANGED << cache, cacheTime, now, lastOk, requiresAuth,
                    isAuthenticated, pollVars, pageVars, apiVars, mountVars >>

\* ExecuteResolve committing only the most recently started call's result.
ExecuteResolve_Fenced(c, result) ==
    /\ c \in inflight
    /\ inflight' = inflight \ {c}
    /\ data' = IF c.id = calls THEN result ELSE data
    /\ cacheRef' = IF cache /\ c.id = calls
                   THEN [timestamp |-> now, data |-> result, params |-> c.params]
                   ELSE cacheRef
    /\ onSuccessCalls' = onSuccessCalls + 1
    /\ loading' = FALSE
    /\ last' = [Record("resolve", c.params, TRUE, TRUE, result, FALSE)
                    EXCEPT !.overtook = \E d \in inflight : d.id < c.id,
                           !.late = /\ last.op = "resolve"
                                    /\ last.overtook
                                    /\ \A d \in inflight : c.id <= d.id
                                    /\ result # last.ret]
    /\ lastOk' = [valid |-> TRUE, params |-> c.params, result |-> result,
                  time |-> now]
    /\ UNCHANGED << error, cache, cacheTime, now, calls, opCalls, onErrorCalls,
                    requiresAuth, isAuthenticated, pollVars, pageVars, apiVars, mountVars >>

\* The awaited promise fulfils with result: the try block's continuation,
\* then finally.
ExecuteResolve(c, result) ==
    /\ c \in inflight
    /\ inflight' = inflight \ {c}
    /\ data' = result
    /\ cacheRef' = IF cache
                   THEN [timestamp |-> now, data |-> result, params |-> c.params]
                   ELSE cacheRef
    /\ onSuccessCalls' = onSuccessCalls + 1
    /\ loading' = FALSE
    /\ last' = [Record("resolve", c.params, TRUE, TRUE, result, FALSE)
                    EXCEPT !.overtook = \E d \in inflight : d.id < c.id,
                           !.late = /\ last.op = "resolve"
                                    /\ last.overtook
                                    /\ \A d \in inflight : c.id <= d.id
                                    /\ result # last.ret]
    /\ lastOk' = [valid |-> TRUE, params |-> c.params, result |-> result,
                  time |-> now]
    /\ UNCHANGED << error, cache, cacheTime, now, calls, opCalls, onErrorCalls,
                    requiresAuth, isAuthenticated, pollVars, pageVars, apiVars, mountVars >>

\* ExecuteReject with setLoading(false) at the end of the try block only.
ExecuteReject_NoFinally(c, err) ==
    /\ c \in inflight
    /\ inflight' = inflight \ {c}
    /\ error' = err
    /\ onErrorCalls' = onErrorCalls + 1
    /\ last' = Record("reject", c.params, TRUE, TRUE, err, TRUE)
    /\ UNCHANGED << data, loading, cacheRef, cache, cacheTime, now, calls,
                    opCalls, onSuccessCalls, lastOk, requiresAuth,
                    isAuthenticated, pollVars, pageVars, apiVars, mountVars >>

\* ExecuteReject that also discards the stale data on failure.
ExecuteReject_ClearsData(c, err) ==
    /\ c \in inflight
    /\ inflight' = inflight \ {c}
    /\ error' = err
    /\ data' = JSNull
    /\ onErrorCalls' = onErrorCalls + 1
    /\ loading' = FALSE
    /\ last' = Record("reject", c.params, TRUE, TRUE, err, TRUE)
    /\ UNCHANGED << cacheRef, cache, cacheTime, now, calls, opCalls,
                    onSuccessCalls, lastOk, requiresAuth, isAuthenticated,
                    pollVars, pageVars, apiVars, mountVars >>

\* The awaited promise rejects with err: the catch block, then finally.
ExecuteReject(c, err) ==
    /\ c \in inflight
    /\ inflight' = inflight \ {c}
    /\ error' = err
    /\ onErrorCalls' = onErrorCalls + 1
    /\ loading' = FALSE
    /\ last' = Record("reject", c.params, TRUE, TRUE, err, TRUE)
    /\ UNCHANGED << data, cacheRef, cache, cacheTime, now, calls, opCalls,
                    onSuccessCalls, lastOk, requiresAuth, isAuthenticated,
                    pollVars, pageVars, apiVars, mountVars >>

\* reset that leaves the cache entry alone.
reset_KeepsCache ==
    /\ data' = JSNull
    /\ loading' = FALSE
    /\ error' = JSNull
    /\ last' = Record("reset", <<>>, FALSE, FALSE, JSUndefined, FALSE)
    /\ lastOk' = NoOk
    /\ UNCHANGED << cacheRef, cache, cacheTime, now, inflight, calls, opCalls,
                    onSuccessCalls, onErrorCalls, requiresAuth,
                    isAuthenticated, pollVars, pageVars, apiVars, mountVars >>

reset ==
    /\ data' = JSNull
    /\ loading' = FALSE
    /\ error' = JSNull
    /\ clearCache
    /\ last' = Record("reset", <<>>, FALSE, FALSE, JSUndefined, FALSE)
    /\ lastOk' = NoOk
    /\ UNCHANGED << cache, cacheTime, now, inflight, calls, opCalls,
                    onSuccessCalls, onErrorCalls, requiresAuth,
                    isAuthenticated, pollVars, pageVars, apiVars, mountVars >>

\* clearCache that also drops the displayed data.
ClearCacheCall_ClearsData ==
    /\ clearCache
    /\ data' = JSNull
    /\ last' = Record("clearCache", cacheRef.params, FALSE, FALSE, JSUndefined, FALSE)
    /\ lastOk' = NoOk
    /\ UNCHANGED << loading, error, cache, cacheTime, now, inflight,
                    calls, opCalls, onSuccessCalls, onErrorCalls,
                    requiresAuth, isAuthenticated, pollVars, pageVars, apiVars, mountVars >>

\* A call of the returned clearCache; the record keeps the params of the
\* entry it invalidated.
ClearCacheCall ==
    /\ clearCache
    /\ last' = Record("clearCache", cacheRef.params, FALSE, FALSE, JSUndefined, FALSE)
    /\ lastOk' = NoOk
    /\ UNCHANGED << data, loading, error, cache, cacheTime, now, inflight,
                    calls, opCalls, onSuccessCalls, onErrorCalls,
                    requiresAuth, isAuthenticated, pollVars, pageVars, apiVars, mountVars >>

\* Date.now() advances.
Tick ==
    /\ now < MaxTime
    /\ now' = now + 1
    /\ UNCHANGED << data, loading, error, cacheRef, cache, cacheTime,
                    inflight, calls, opCalls, onSuccessCalls, onErrorCalls,
                    last, lastOk, requiresAuth, isAuthenticated, pollVars, pageVars, apiVars, mountVars >>

\* The ambient authentication signal changes and the component re-renders.
\* useEffect(() => { if (loadOnMount) execute(); }, [loadOnMount, execute])
\* running with the execute of a render that saw isAuthenticated = auth.
LoadOnMountEffect(auth) ==
    IF loadOnMount
    THEN /\ calls < MaxCalls
         /\ calls' = calls + 1
         /\ autoCalls' = autoCalls + 1
         /\ IF requiresAuth /\ ~auth THEN ExecuteAuthFail(<<>>)
            ELSE IF isCacheValid(<<>>) THEN ExecuteCacheHit(<<>>)
            ELSE ExecuteInvoke(<<>>)
         /\ UNCHANGED << cache, cacheTime, now, lastOk >>
    ELSE UNCHANGED << data, loading, error, cacheRef, cache, cacheTime, now,
                      inflight, calls, opCalls, onSuccessCalls, onErrorCalls,
                      last, lastOk, autoCalls >>

\* The component is attached: the effects of the first render run.
Attach ==
    /\ ~attached
    /\ attached' = TRUE
    /\ LoadOnMountEffect(isAuthenticated)
    /\ UNCHANGED << loadOnMount, renders, requiresAuth, isAuthenticated,
                    pollVars, pageVars, apiVars >>

\* The owning component re-renders. With fresh, it passes onSuccess/onError
\* functions of a new identity (inline callbacks): execute, whose dependency
\* list names them, is a new function and the effect that depends on execute
\* runs again. Otherwise no dependency changed and no effect runs.
Rerender(fresh) ==
    /\ attached
    /\ renders < MaxRenders
    /\ renders' = renders + 1
    /\ IF fresh THEN LoadOnMountEffect(isAuthenticated)
       ELSE UNCHANGED << data, loading, error, cacheRef, cache, cacheTime, now,
                         inflight, calls, opCalls, onSuccessCalls, onErrorCalls,
                         last, lastOk, autoCalls >>
    /\ UNCHANGED << loadOnMount, attached, requiresAuth, isAuthenticated,
                    pollVars, pageVars, apiVars >>

\* The ambient authentication signal changes and the component re-renders:
\* execute depends on isAuthenticated, so the loadOnMount effect runs again.
AuthChange ==
    /\ isAuthenticated' = ~isAuthenticated
    /\ IF attached THEN LoadOnMountEffect(isAuthenticated')
       ELSE UNCHANGED << data, loading, error, cacheRef, cache, cacheTime, now,
                         inflight, calls, opCalls, onSuccessCalls, onErrorCalls,
                         last, lastOk, autoCalls >>
    /\ UNCHANGED << loadOnMount, attached, renders, requiresAuth,
                    pollVars, pageVars, apiVars >>

RerenderStep == \E fresh \in BOOLEAN : Rerender(fresh)

ExecuteStep == \E p \in ParamTuples : execute(p)
ResolveStep == \E c \in inflight, r \in Results : ExecuteResolve(c, r)
RejectStep == \E c \in inflight, e \in Errors : ExecuteReject(c, e)

\* ================================================= useApiCall properties
GatePasses == ~(requiresAuth /\ ~isAuthenticated)
ExecuteCalled == calls' = calls + 1
Settled == Cardinality(inflight') < Cardinality(inflight)

\* C1: with caching on, an execute whose params are deeply equal to those of
\* the last successful execute, made within cacheTime of it, does not invoke
\* the operation and returns that call's result, whatever the result was.
C1_CacheHitAnyResult ==
    ( /\ cache
      /\ last.op = "execute"
      /\ last.gate
      /\ lastOk.valid
      /\ DeepEqual(last.params, lastOk.params)
      /\ now - lastOk.time <= cacheTime )
    => ( ~last.invoked /\ last.ret = lastOk.result )

\* C2: with caching on, an execute that passes the authentication gate, made
\* after the entry expired or with params not deeply equal to the cached
\* params, invokes the operation again.
C2_MissInvokes ==
    [][ ( /\ ExecuteCalled
          /\ cache
          /\ GatePasses
          /\ \/ now - cacheRef.timestamp > cacheTime
             \/ ~DeepEqual(last'.params, cacheRef.params) )
        => opCalls' = opCalls + 1 ]_vars

\* C3: an execute made while the operation requires authentication and the
\* signal is false returns undefined, sets the authentication-required
\* error, calls the error callback and neither invokes the operation nor
\* publishes cached data.
C3_AuthFailsFast ==
    [][ ( ExecuteCalled /\ requiresAuth /\ ~isAuthenticated )
        => ( /\ last'.ret = JSUndefined
             /\ error' = AuthError
             /\ onErrorCalls' = onErrorCalls + 1
             /\ onSuccessCalls' = onSuccessCalls
             /\ opCalls' = opCalls
             /\ inflight' = inflight
             /\ ~last'.invoked
             /\ data' = data ) ]_vars

\* The gate rejected an execute for which a valid cache entry exists.
C3_Witness ==
    /\ last.op = "execute"
    /\ ~last.gate
    /\ requiresAuth /\ ~isAuthenticated
    /\ isCacheValid(last.params)
    /\ error = AuthError

\* C4: reset yields data = null, loading = false, error = null and the
\* empty cache entry, and the next execute that passes the gate invokes the
\* operation whatever its params.
C4_ResetClearsAll ==
    /\ [] ( last.op = "reset"
            => ( /\ data = JSNull
                 /\ loading = FALSE
                 /\ error = JSNull
                 /\ cacheRef = EmptyCache ) )
    /\ [][ ( last.op = "reset" /\ ExecuteCalled /\ GatePasses )
           => opCalls' = opCalls + 1 ]_vars

\* With caching on, a completed execute was reset and the next execute
\* invoked the operation again.
C4_Witness ==
    /\ cache
    /\ last.op = "execute"
    /\ last.prev = "reset"
    /\ last.invoked
    /\ onSuccessCalls >= 1
    /\ now <= cacheTime + 1

\* C5: the settlement of every invocation clears loading, and, invocations
\* settling eventually, loading = true leads to loading = false.
C5_LoadingCleared ==
    /\ [][ Settled => loading' = FALSE ]_vars
    /\ ( loading ~> ~loading )

\* An invocation failed and loading is cleared.
C5_Witness ==
    /\ last.op = "reject"
    /\ last.prev = "execute"
    /\ ~loading

\* C6: a failing invocation stores the failure in error, calls the error
\* callback once and the success callback not at all, re-raises the failure,
\* and neither the call nor its failure touches data or the cache entry.
C6_FailureStoredAndRaised ==
    /\ [][ ( Settled /\ last'.op = "reject" )
           => ( /\ error' = last'.ret
                /\ error' \in Errors
                /\ last'.threw
                /\ onErrorCalls' = onErrorCalls + 1
                /\ onSuccessCalls' = onSuccessCalls
                /\ data' = data
                /\ cacheRef' = cacheRef ) ]_vars
    /\ [][ ( ExecuteCalled /\ opCalls' # opCalls )
           => ( data' = data /\ cacheRef' = cacheRef ) ]_vars

\* An invocation failed after an earlier one had filled data and the cache.
C6_Witness ==
    /\ last.op = "reject"
    /\ last.threw
    /\ error \in Errors
    /\ data = "r1"
    /\ cacheRef.data = "r1"

\* C21: clearCache empties the cache entry and leaves data, loading and
\* error as they were, and the next execute that passes the gate with the
\* params of the invalidated entry invokes the operation.
C21_ClearCacheOnlyCache ==
    /\ [] ( last.op = "clearCache" => cacheRef = EmptyCache )
    /\ [][ last'.op = "clearCache"
           => ( data' = data /\ loading' = loading /\ error' = error ) ]_vars
    /\ [][ ( /\ last.op = "clearCache"
             /\ ExecuteCalled
             /\ GatePasses
             /\ DeepEqual(last'.params, last.params) )
           => opCalls' = opCalls + 1 ]_vars

\* A filled, unexpired entry was cleared while its data stayed on display,
\* and the next execute with the same params invoked the operation.
C21_Witness ==
    /\ cache
    /\ last.op = "execute"
    /\ last.prev = "clearCache"
    /\ last.params = last.prevParams
    /\ last.invoked
    /\ data = "r1"
    /\ now <= cacheTime

\* C22: with loadOnMount, execute() is called by the hook exactly once, when
\* the controller is attached, and not again on any later re-render.
C22_LoadOnMountOnce ==
    ( loadOnMount /\ attached ) => autoCalls = 1

\* C25: overlapping calls are not fenced: every successful settlement
\* writes its own result to data and, with caching, its own result and
\* params to the cache entry, whichever calls were started after it; so a
\* call that started first and settles last leaves its result in place.
C25_UnfencedSettlement ==
    [][ ( Settled /\ last'.op = "resolve" )
        => ( /\ data' = last'.ret
             /\ cache => ( /\ cacheRef'.data = last'.ret
                           /\ cacheRef'.params = last'.params ) ) ]_vars

\* Call A started before call B, B settled first with another result and A
\* last: data and the cache entry are those of A.
C25_Witness ==
    /\ cache
    /\ inflight = {}
    /\ last.op = "resolve"
    /\ last.prev = "resolve"
    /\ last.late
    /\ data = lastOk.result
    /\ cacheRef.data = lastOk.result
    /\ cacheRef.params = lastOk.params

\* C27: loading is true while an invocation started by execute is pending:
\* starting an invocation sets it, and a settlement that leaves another
\* invocation pending, in a state where loading was true, leaves it true.
C27_LoadingWhilePending ==
    /\ [][ ( ExecuteCalled /\ opCalls' # opCalls ) => loading' ]_vars
    /\ [][ ( Settled /\ loading /\ inflight' # {} ) => loading' ]_vars

\* C28: after a reset made while a call is in flight, and before any new
\* execute, the settlement of that call changes none of data, error and
\* the cache entry: the state stays as reset left it.
C28_ResetFencesInflight ==
    [][ ( last.op = "reset" /\ Settled )
        => ( /\ data' = JSNull
             /\ loading' = FALSE
             /\ error' = JSNull
             /\ cacheRef' = EmptyCache ) ]_vars

\* ========================================================= useApiPolling
NoPollLast == [op |-> "none", invoked |-> FALSE, threw |-> FALSE]

PollRecord(op, invoked, threw) == [op |-> op, invoked |-> invoked, threw |-> threw]

\* The Poller's variables while only the Call Controller is exercised.
PollIdle ==
    /\ pData = JSNull
    /\ pLoading = FALSE
    /\ pError = JSNull
    /\ isPolling = FALSE
    /\ rIsPolling = FALSE
    /\ timerRef = 0
    /\ liveTimers = {}
    /\ immediate = FALSE
    /\ stopOnError = FALSE
    /\ phase = "unmounted"
    /\ pInflight = 0
    /\ nextTimer = 1
    /\ polls = 0
    /\ pLast = NoPollLast

\* A Call Controller without loadOnMount whose effects have run.
MountIdle ==
    /\ loadOnMount = FALSE
    /\ attached = TRUE
    /\ autoCalls = 0
    /\ renders = 0

\* The Call Controller's variables while only the Poller is exercised.
CallIdle ==
    /\ data = JSNull
    /\ loading = FALSE
    /\ error = JSNull
    /\ cacheRef = EmptyCache
    /\ cache = FALSE
    /\ cacheTime = 1
    /\ now = 1
    /\ inflight = {}
    /\ calls = 0
    /\ opCalls = 0
    /\ onSuccessCalls = 0
    /\ onErrorCalls = 0
    /\ last = NoLast
    /\ lastOk = NoOk
    /\ MountIdle

\* The hook has been called for the first render; effects have not run yet.
PollInit ==
    /\ pData = JSNull
    /\ pLoading = FALSE
    /\ pError = JSNull
    /\ immediate \in BOOLEAN
    /\ stopOnError \in BOOLEAN
    /\ isPolling = immediate
    /\ rIsPolling = immediate
    /\ timerRef = 0
    /\ liveTimers = {}
    /\ phase = "created"
    /\ pInflight = 0
    /\ nextTimer = 1
    /\ polls = 0
    /\ pLast = NoPollLast

\* The timers left after clearTimer() when the ref holds ref.
clearTimer(timers, ref) == {t \in timers : t.id # ref}

\* Whether executePoll, created under authentication signal auth, gets past
\* its gate and invokes the operation.
PollInvokes(auth) == ~(requiresAuth /\ ~auth)

\* executePoll() up to its await, from a closure that saw auth.
executePoll(auth) ==
    IF PollInvokes(auth)
    THEN /\ polls' = polls + 1
         /\ pInflight' = pInflight + 1
         /\ pLoading' = IF phase = "unmounted" THEN pLoading ELSE TRUE
         /\ pError' = IF phase = "unmounted" THEN pError ELSE JSNull
    ELSE UNCHANGED << polls, pInflight, pLoading, pError >>

\* The body of startPolling() past its guard, with timers still live and
\* executePoll taken from a closure that saw auth.
StartBody(timers, auth) ==
    /\ isPolling' = TRUE
    /\ IF immediate THEN executePoll(auth)
       ELSE UNCHANGED << polls, pInflight, pLoading, pError >>
    /\ timerRef' = nextTimer
    /\ liveTimers' = timers \cup {[id |-> nextTimer, auth |-> auth]}
    /\ nextTimer' = nextTimer + 1

\* The polling effect: the previous run's cleanup when there is one, then
\* if (isPolling) { clearTimer(); startPolling(); } in the render that saw
\* isPolling = polling and authentication signal auth.
PollingEffect(polling, auth, op) ==
    /\ rIsPolling' = polling
    /\ IF polling
       THEN /\ StartBody(clearTimer(liveTimers, timerRef), auth)
            /\ pLast' = PollRecord(op, immediate /\ PollInvokes(auth), FALSE)
       ELSE /\ timerRef' = 0
            /\ liveTimers' = clearTimer(liveTimers, timerRef)
            /\ pLast' = PollRecord(op, FALSE, FALSE)
            /\ UNCHANGED << isPolling, nextTimer, polls, pInflight, pLoading,
                            pError >>

Budget == nextTimer <= MaxTimers /\ polls < MaxPolls

\* First commit: both effects run for the first time.
Mount ==
    /\ phase = "created"
    /\ phase' = "mounted"
    /\ PollingEffect(isPolling, isAuthenticated, "mount")
    /\ UNCHANGED << pData, immediate, stopOnError, callVars, apiVars, pageVars, requiresAuth,
                    isAuthenticated >>

\* A re-render caused by setIsPolling: the effect's dependencies changed.
Render ==
    /\ phase = "mounted"
    /\ isPolling # rIsPolling
    /\ Budget
    /\ PollingEffect(isPolling, isAuthenticated, "render")
    /\ UNCHANGED << pData, immediate, stopOnError, phase, callVars, apiVars, pageVars,
                    requiresAuth, isAuthenticated >>

\* A re-render with a changed value in options.dependencies.
DependencyChange ==
    /\ phase = "mounted"
    /\ Budget
    /\ PollingEffect(isPolling, isAuthenticated, "dependencies")
    /\ UNCHANGED << pData, immediate, stopOnError, phase, callVars, apiVars, pageVars,
                    requiresAuth, isAuthenticated >>

\* The authentication signal changes: a re-render in which executePoll, and
\* with it startPolling, is a new function.
PollAuthChange ==
    /\ phase = "mounted"
    /\ Budget
    /\ isAuthenticated' = ~isAuthenticated
    /\ PollingEffect(isPolling, isAuthenticated', "auth")
    /\ UNCHANGED << pData, immediate, stopOnError, phase, callVars, apiVars, pageVars,
                    requiresAuth >>

\* startPolling() of the last render, called by the component.
startPolling ==
    /\ phase = "mounted"
    /\ Budget
    /\ IF rIsPolling /\ timerRef # 0
       THEN /\ pLast' = PollRecord("startPolling", FALSE, FALSE)
            /\ UNCHANGED << isPolling, timerRef, liveTimers, nextTimer, polls,
                            pInflight, pLoading, pError >>
       ELSE /\ StartBody(liveTimers, isAuthenticated)
            /\ pLast' = PollRecord("startPolling",
                                   immediate /\ PollInvokes(isAuthenticated),
                                   FALSE)
    /\ UNCHANGED << pData, rIsPolling, immediate, stopOnError, phase,
                    callVars, apiVars, pageVars, requiresAuth, isAuthenticated >>

stopPolling ==
    /\ phase = "mounted"
    /\ isPolling' = FALSE
    /\ timerRef' = 0
    /\ liveTimers' = clearTimer(liveTimers, timerRef)
    /\ pLast' = PollRecord("stopPolling", FALSE, FALSE)
    /\ UNCHANGED << pData, pLoading, pError, rIsPolling, immediate,
                    stopOnError, phase, pInflight, nextTimer, polls, callVars, apiVars, pageVars,
                    requiresAuth, isAuthenticated >>

\* A live interval timer fires and calls the executePoll it was given.
TimerTick(t) ==
    /\ t \in liveTimers
    /\ polls < MaxPolls
    /\ executePoll(t.auth)
    /\ pLast' = PollRecord("tick", PollInvokes(t.auth), FALSE)
    /\ UNCHANGED << pData, isPolling, rIsPolling, timerRef, liveTimers,
                    immediate, stopOnError, phase, nextTimer, callVars, apiVars, pageVars,
                    requiresAuth, isAuthenticated >>

\* The awaited apiFunction() fulfils: setData(result), then finally.
PollResolve(result) ==
    /\ pInflight > 0
    /\ pInflight' = pInflight - 1
    /\ pData' = IF phase = "unmounted" THEN pData ELSE result
    /\ pLoading' = IF phase = "unmounted" THEN pLoading ELSE FALSE
    /\ pLast' = PollRecord("resolve", TRUE, FALSE)
    /\ UNCHANGED << pError, isPolling, rIsPolling, timerRef, liveTimers,
                    immediate, stopOnError, phase, nextTimer, polls, callVars, apiVars, pageVars,
                    requiresAuth, isAuthenticated >>

\* The awaited apiFunction() rejects: the catch block, then finally.
PollReject(err) ==
    /\ pInflight > 0
    /\ pInflight' = pInflight - 1
    /\ pError' = IF phase = "unmounted" THEN pError ELSE err
    /\ IF stopOnError
       THEN /\ isPolling' = IF phase = "unmounted" THEN isPolling ELSE FALSE
            /\ timerRef' = 0
            /\ liveTimers' = clearTimer(liveTimers, timerRef)
       ELSE UNCHANGED << isPolling, timerRef, liveTimers >>
    /\ pLoading' = IF phase = "unmounted" THEN pLoading ELSE FALSE
    /\ pLast' = PollRecord("reject", TRUE, TRUE)
    /\ UNCHANGED << pData, rIsPolling, immediate, stopOnError, phase,
                    nextTimer, polls, callVars, apiVars, pageVars, requiresAuth, isAuthenticated >>

\* The component unmounts: the cleanups of both effects run.
Unmount ==
    /\ phase = "mounted"
    /\ phase' = "unmounted"
    /\ timerRef' = 0
    /\ liveTimers' = clearTimer(clearTimer(liveTimers, timerRef), 0)
    /\ pLast' = PollRecord("unmount", FALSE, FALSE)
    /\ UNCHANGED << pData, pLoading, pError, isPolling, rIsPolling, immediate,
                    stopOnError, pInflight, nextTimer, polls, callVars, apiVars, pageVars,
                    requiresAuth, isAuthenticated >>

TickStep == \E t \in liveTimers : TimerTick(t)
PollResolveStep == \E r \in Results : PollResolve(r)
PollRejectStep == \E e \in Errors : PollReject(e)

\* ============================================== useApiPolling properties
\* C7: after stopPolling(), however many times it is called and whatever
\* startPolling/stopPolling calls came before, no interval timer is live and
\* isPolling is false.
C7_StopLeavesNoTimer ==
    pLast.op = "stopPolling" => ( liveTimers = {} /\ isPolling = FALSE )

\* C8: a Poller never owns more than one live interval timer.
C8_AtMostOneTimer ==
    Cardinality(liveTimers) <= 1

\* C9: with stopOnError, a failed invocation leaves isPolling false and no
\* timer live, so that no further tick follows.
C9_StopOnErrorStops ==
    ( stopOnError /\ phase = "mounted" /\ pLast.op = "reject" )
    => ( isPolling = FALSE /\ timerRef = 0 /\ liveTimers = {} )

\* C10: after a dependency change only the timer of the restarted polling is
\* live, and after unmount no timer is live.
C10_TeardownReleasesTimers ==
    /\ pLast.op = "dependencies" => liveTimers \subseteq {t \in liveTimers : t.id = timerRef}
    /\ phase = "unmounted" => liveTimers = {}

\* C11: a failing Poller invocation stores the failure in error and does not
\* re-raise it: the promise executePoll returned does not reject.
C11_FailureNotRaised ==
    ( pLast.op = "reject" /\ phase = "mounted" )
    => ( pError \in Errors /\ ~pLast.threw )

\* C12: while the operation requires authentication and the authentication
\* signal is false, a Poller invocation does not invoke the operation, and a
\* timer tick changes none of data, loading, error, isPolling and the timers.
C12_UnauthenticatedSkipped ==
    /\ [][ ( requiresAuth /\ ~isAuthenticated /\ ~isAuthenticated' )
           => ( polls' = polls /\ pInflight' <= pInflight ) ]_vars
    /\ [][ ( requiresAuth /\ ~isAuthenticated /\ pLast'.op = "tick" )
           => ( /\ pData' = pData
                /\ pLoading' = pLoading
                /\ pError' = pError
                /\ isPolling' = isPolling
                /\ timerRef' = timerRef
                /\ liveTimers' = liveTimers ) ]_vars

\* C29: a startPolling call on a Poller that is not polling invokes the
\* operation at once exactly when immediate is set (and the gate passes),
\* and the polling effect that re-runs because isPolling changed adds no
\* second invocation before the first tick; with immediate = false neither
\* the call nor the effect invokes it, and polling does not start on mount.
C29_ImmediateOnce ==
    /\ [][ ( /\ pLast'.op = "startPolling"
             /\ ~isPolling /\ ~rIsPolling
             /\ nextTimer' # nextTimer )
           => polls' = ( IF immediate /\ PollInvokes(isAuthenticated)
                         THEN polls + 1 ELSE polls ) ]_vars
    /\ [][ ( /\ pLast.op = "startPolling"
             /\ pLast.invoked
             /\ pLast'.op = "render" )
           => polls' = polls ]_vars
    /\ [][ ( ~immediate /\ pLast'.op \in {"mount", "render", "startPolling"} )
           => polls' = polls ]_vars
    /\ [] ( ( ~immediate /\ pLast.op = "mount" )
            => ( ~isPolling /\ liveTimers = {} /\ polls = 0 ) )

\* C26: once the Poller is unmounted, or stopped with no timer left, the
\* settlement of an invocation still in flight changes none of data,
\* loading, error and isPolling.
C26_NoUpdateAfterTeardown ==
    [][ ( /\ pInflight' < pInflight
          /\ \/ phase = "unmounted"
             \/ ( pLast.op = "stopPolling" /\ ~isPolling /\ liveTimers = {} ) )
        => ( /\ pData' = pData
             /\ pLoading' = pLoading
             /\ pError' = pError
             /\ isPolling' = isPolling ) ]_vars

\* ===================================================== useInfiniteScroll
initialPage == 1
pageSize == 10

\* Lengths of the page the operation answers with, and the total count its
\* response carries (0: the response has no total, totalCount or count).
Counts == {0, 5, 10}
Totals == {0, 25}

\* items.length
RECURSIVE Length(_)
Length(its) == IF its = <<>> THEN 0 ELSE its[1].n + Length(Tail(its))

Chunk(p, n) == [page |-> p, n |-> n]

NoPageLast == [op |-> "none", page |-> 0, invoked |-> FALSE, threw |-> FALSE,
               n |-> 0, total |-> 0]

PageRecord(op, p, invoked, threw, n, total) ==
    [op |-> op, page |-> p, invoked |-> invoked, threw |-> threw, n |-> n,
     total |-> total]

\* The Paginator's variables while another hook is exercised.
PageIdle ==
    /\ items = <<>>
    /\ page = initialPage
    /\ hasMore = TRUE
    /\ sLoading = FALSE
    /\ sError = JSNull
    /\ rItemsLen = 0
    /\ rPage = initialPage
    /\ rHasMore = TRUE
    /\ rLoading = FALSE
    /\ sInflight = {}
    /\ sCalls = 0
    /\ sFetches = 0
    /\ sLast = NoPageLast
    /\ scenario = -1
    /\ serial = TRUE

\* The hook after its first render.
PageInit ==
    /\ items = <<>>
    /\ page = initialPage
    /\ hasMore = TRUE
    /\ sLoading = FALSE
    /\ sError = JSNull
    /\ rItemsLen = 0
    /\ rPage = initialPage
    /\ rHasMore = TRUE
    /\ rLoading = FALSE
    /\ sInflight = {}
    /\ sCalls = 0
    /\ sFetches = 0
    /\ sLast = NoPageLast
    /\ scenario = 0
    /\ serial = TRUE

\* The scenario's position after a loadMore/refresh call that did (invoked)
\* or did not request page p.
ScenarioCall(invoked, p) ==
    IF invoked /\ scenario \in {0, 2, 4} /\ p = initialPage + scenario \div 2
    THEN scenario + 1
    ELSE -1

\* The scenario's position after the request for page p was answered with n
\* items and the given total.
ScenarioAnswer(p, n, total) ==
    IF /\ scenario \in {1, 3, 5}
       /\ p = initialPage + scenario \div 2
       /\ total = 25
       /\ n = (IF scenario = 5 THEN 5 ELSE 10)
    THEN scenario + 1
    ELSE -1

\* Whether the callbacks of the last render see the current state.
RenderCurrent ==
    << rItemsLen, rPage, rHasMore, rLoading >>
        = << Length(items), page, hasMore, sLoading >>

\* Whether the fetchPage of the last render gets past
\* if (loading || !hasMore) return;
FetchProceeds == ~rLoading /\ rHasMore

\* fetchPage(pageNumber) of the last render, up to its await.
fetchPage(pageNumber) ==
    IF FetchProceeds
    THEN /\ sLoading' = TRUE
         /\ sError' = JSNull
         /\ sInflight' = sInflight \cup
                {[id |-> sFetches + 1, page |-> pageNumber, len |-> rItemsLen]}
         /\ sFetches' = sFetches + 1
    ELSE UNCHANGED << sLoading, sError, sInflight, sFetches >>

\* loadMore() of the last render.
loadMore ==
    /\ sCalls < MaxFetches
    /\ sCalls' = sCalls + 1
    /\ IF ~rLoading /\ rHasMore
       THEN fetchPage(rPage + 1)
       ELSE UNCHANGED << sLoading, sError, sInflight, sFetches >>
    /\ sLast' = PageRecord("loadMore", rPage + 1, FetchProceeds, FALSE, 0, 0)
    /\ scenario' = ScenarioCall(FetchProceeds, rPage + 1)
    /\ serial' = (serial /\ sInflight = {} /\ RenderCurrent)
    /\ UNCHANGED << items, page, hasMore, rItemsLen, rPage, rHasMore, rLoading,
                    callVars, apiVars, pollVars, requiresAuth, isAuthenticated >>

\* refresh() of the last render.
refresh ==
    /\ sCalls < MaxFetches
    /\ sCalls' = sCalls + 1
    /\ hasMore' = TRUE
    /\ fetchPage(initialPage)
    /\ sLast' = PageRecord("refresh", initialPage, FetchProceeds, FALSE, 0, 0)
    /\ scenario' = ScenarioCall(FetchProceeds, initialPage)
    /\ serial' = (serial /\ sInflight = {} /\ RenderCurrent)
    /\ UNCHANGED << items, page, rItemsLen, rPage, rHasMore, rLoading,
                    callVars, apiVars, pollVars, requiresAuth, isAuthenticated >>

\* The component re-renders: the callbacks are re-created over the state.
PageRender ==
    /\ ~RenderCurrent
    /\ rItemsLen' = Length(items)
    /\ rPage' = page
    /\ rHasMore' = hasMore
    /\ rLoading' = sLoading
    /\ UNCHANGED << items, page, hasMore, sLoading, sError, sInflight, sCalls,
                    sFetches, sLast, scenario, serial, callVars, apiVars,
                    pollVars, requiresAuth, isAuthenticated >>

\* PageResolve comparing the accumulated length with <= total.
PageResolve_TotalInclusive(c, n, total) ==
    /\ c \in sInflight
    /\ sInflight' = sInflight \ {c}
    /\ IF n > 0
       THEN /\ items' = IF c.page = initialPage
                        THEN << Chunk(c.page, n) >>
                        ELSE Append(items, Chunk(c.page, n))
            /\ hasMore' = IF total # 0
                          THEN c.len + n <= total
                          ELSE n >= pageSize
            /\ page' = c.page
       ELSE /\ hasMore' = FALSE
            /\ UNCHANGED << items, page >>
    /\ sLoading' = FALSE
    /\ sLast' = PageRecord("resolve", c.page, TRUE, FALSE, n, total)
    /\ scenario' = ScenarioAnswer(c.page, n, total)
    /\ UNCHANGED << sError, rItemsLen, rPage, rHasMore, rLoading, sCalls,
                    sFetches, serial, callVars, apiVars, pollVars, requiresAuth,
                    isAuthenticated >>

\* PageResolve taking only a page longer than pageSize as a sign of more.
PageResolve_StrictPageSize(c, n, total) ==
    /\ c \in sInflight
    /\ sInflight' = sInflight \ {c}
    /\ IF n > 0
       THEN /\ items' = IF c.page = initialPage
                        THEN << Chunk(c.page, n) >>
                        ELSE Append(items, Chunk(c.page, n))
            /\ hasMore' = IF total # 0
                          THEN c.len + n < total
                          ELSE n > pageSize
            /\ page' = c.page
       ELSE /\ hasMore' = FALSE
            /\ UNCHANGED << items, page >>
    /\ sLoading' = FALSE
    /\ sLast' = PageRecord("resolve", c.page, TRUE, FALSE, n, total)
    /\ scenario' = ScenarioAnswer(c.page, n, total)
    /\ UNCHANGED << sError, rItemsLen, rPage, rHasMore, rLoading, sCalls,
                    sFetches, serial, callVars, apiVars, pollVars, requiresAuth,
                    isAuthenticated >>

\* PageResolve replacing the items whatever the page number.
PageResolve_AlwaysReplace(c, n, total) ==
    /\ c \in sInflight
    /\ sInflight' = sInflight \ {c}
    /\ IF n > 0
       THEN /\ items' = << Chunk(c.page, n) >>
            /\ hasMore' = IF total # 0
                          THEN c.len + n < total
                          ELSE n >= pageSize
            /\ page' = c.page
       ELSE /\ hasMore' = FALSE
            /\ UNCHANGED << items, page >>
    /\ sLoading' = FALSE
    /\ sLast' = PageRecord("resolve", c.page, TRUE, FALSE, n, total)
    /\ scenario' = ScenarioAnswer(c.page, n, total)
    /\ UNCHANGED << sError, rItemsLen, rPage, rHasMore, rLoading, sCalls,
                    sFetches, serial, callVars, apiVars, pollVars, requiresAuth,
                    isAuthenticated >>

\* The awaited apiFunction(params) of fetch c fulfils with n items and the
\* given total: the rest of the try block, then finally.
PageResolve(c, n, total) ==
    /\ c \in sInflight
    /\ sInflight' = sInflight \ {c}
    /\ IF n > 0
       THEN /\ items' = IF c.page = initialPage
                        THEN << Chunk(c.page, n) >>
                        ELSE Append(items, Chunk(c.page, n))
            /\ hasMore' = IF total # 0
                          THEN c.len + n < total
                          ELSE n >= pageSize
            /\ page' = c.page
       ELSE /\ hasMore' = FALSE
            /\ UNCHANGED << items, page >>
    /\ sLoading' = FALSE
    /\ sLast' = PageRecord("resolve", c.page, TRUE, FALSE, n, total)
    /\ scenario' = ScenarioAnswer(c.page, n, total)
    /\ UNCHANGED << sError, rItemsLen, rPage, rHasMore, rLoading, sCalls,
                    sFetches, serial, callVars, apiVars, pollVars, requiresAuth,
                    isAuthenticated >>

\* PageReject that also drops the accumulated items.
PageReject_ClearsItems(c, err) ==
    /\ c \in sInflight
    /\ sInflight' = sInflight \ {c}
    /\ sError' = err
    /\ items' = <<>>
    /\ sLoading' = FALSE
    /\ sLast' = PageRecord("reject", c.page, TRUE, TRUE, 0, 0)
    /\ scenario' = -1
    /\ UNCHANGED << page, hasMore, rItemsLen, rPage, rHasMore,
                    rLoading, sCalls, sFetches, serial, callVars, apiVars,
                    pollVars, requiresAuth, isAuthenticated >>

\* The awaited apiFunction(params) of fetch c rejects: catch, then finally.
PageReject(c, err) ==
    /\ c \in sInflight
    /\ sInflight' = sInflight \ {c}
    /\ sError' = err
    /\ sLoading' = FALSE
    /\ sLast' = PageRecord("reject", c.page, TRUE, TRUE, 0, 0)
    /\ scenario' = -1
    /\ UNCHANGED << items, page, hasMore, rItemsLen, rPage, rHasMore,
                    rLoading, sCalls, sFetches, serial, callVars, apiVars,
                    pollVars, requiresAuth, isAuthenticated >>

PageResolveStep ==
    \E c \in sInflight, n \in Counts, total \in Totals : PageResolve(c, n, total)
PageRejectStep == \E c \in sInflight, e \in Errors : PageReject(c, e)

\* ========================================== useInfiniteScroll properties
PageCalled == sCalls' = sCalls + 1
PageSettled == Cardinality(sInflight') < Cardinality(sInflight)

\* Whether the sequence p is a prefix of the sequence q.
IsPrefix(p, q) == Len(p) <= Len(q) /\ SubSeq(q, 1, Len(p)) = p

\* C13: once the first page refetched by refresh() has arrived, items is
\* exactly that page's items, also when that page is empty (calls made one
\* after the other).
C13_RefreshReplaces ==
    ( serial /\ sLast.op = "resolve" /\ sLast.page = initialPage )
    => items = ( IF sLast.n = 0 THEN <<>>
                 ELSE << Chunk(initialPage, sLast.n) >> )

\* C14: refresh() called while no fetch is loading sets hasMore to true and
\* invokes the operation for initialPage, also when hasMore was false.
C14_RefreshRefetches ==
    [][ ( PageCalled /\ sLast'.op = "refresh" /\ ~sLoading )
        => ( /\ hasMore'
             /\ sFetches' = sFetches + 1
             /\ \E c \in sInflight' \ sInflight : c.page = initialPage ) ]_vars

\* C15: after a successful non-empty fetch whose response carries a total,
\* hasMore = (length of the accumulated items < total), for an appended
\* page and for a first page that replaced the items alike (calls made one
\* after the other).
C15_HasMoreFromTotal ==
    ( serial /\ sLast.op = "resolve" /\ sLast.n > 0 /\ sLast.total # 0 )
    => ( hasMore = (Length(items) < sLast.total) )

\* C16: with pageSize = 10 and total = 25, pages 1, 2 and 3 fetched one
\* after another leave 10 items and hasMore, then 20 items and hasMore, then
\* 25 items and hasMore false.
C16_ScenarioThreePages ==
    /\ scenario = 2 => ( Length(items) = 10 /\ hasMore )
    /\ scenario = 4 => ( Length(items) = 20 /\ hasMore )
    /\ scenario = 6 => ( Length(items) = 25 /\ ~hasMore )

\* The third page of the scenario has arrived.
C16_Witness ==
    /\ pageSize = 10
    /\ scenario = 6
    /\ items = << Chunk(1, 10), Chunk(2, 10), Chunk(3, 5) >>

\* C17: without a total, a fetch of initialPage answered with exactly
\* pageSize items sets hasMore, and a fetch of a later page answered with
\* fewer than pageSize items, or none, clears it.
C17_HasMoreFromPageLength ==
    /\ ( sLast.op = "resolve" /\ sLast.total = 0
         /\ sLast.page = initialPage /\ sLast.n = pageSize ) => hasMore
    /\ ( sLast.op = "resolve" /\ sLast.total = 0
         /\ sLast.page # initialPage /\ sLast.n < pageSize ) => ~hasMore

\* A full first page was followed by a short second page.
C17_Witness ==
    /\ sLast.op = "resolve"
    /\ sLast.total = 0
    /\ items = << Chunk(initialPage, pageSize), Chunk(initialPage + 1, 5) >>
    /\ ~hasMore

\* C18: loadMore() called while a fetch is loading or while hasMore is false
\* invokes nothing and changes no state.
C18_LoadMoreGuarded ==
    [][ ( PageCalled /\ sLast'.op = "loadMore" /\ (sLoading \/ ~hasMore) )
        => ( /\ sFetches' = sFetches
             /\ sInflight' = sInflight
             /\ UNCHANGED << items, page, hasMore, sLoading, sError >> ) ]_vars

\* C19: a failing page fetch stores the error, re-raises it, clears loading
\* and leaves items, page and hasMore alone; when the calls are made one
\* after the other and loadMore() had requested the failed page, the next
\* loadMore() requests that page again.
C19_FetchFailure ==
    /\ [][ ( PageSettled /\ sLast'.op = "reject" )
           => ( /\ sError' \in Errors
                /\ sLast'.threw
                /\ sLoading' = FALSE
                /\ UNCHANGED << items, page, hasMore >> ) ]_vars
    /\ [][ ( /\ sLast.op = "reject"
             /\ sLast.page # initialPage
             /\ serial'
             /\ PageCalled
             /\ sLast'.op = "loadMore"
             /\ sFetches' # sFetches )
           => \E c \in sInflight' \ sInflight : c.page = sLast.page ]_vars

\* After a failed fetch of the second page, past the first page, loadMore()
\* has requested the second page again.
C19_Witness ==
    /\ sLast.op = "loadMore"
    /\ sLast.invoked
    /\ sLast.page = 2
    /\ sError = JSNull
    /\ items = << Chunk(1, 10) >>
    /\ sFetches = 3
    /\ sCalls = 3
    /\ serial

\* C20: a successful fetch of a page other than initialPage appends that
\* page's items to the items; the items change only when a fetch succeeds
\* and lose their old prefix only on a fetch of initialPage.
C20_AppendOnly ==
    /\ [][ ( PageSettled /\ sLast'.op = "resolve" /\ sLast'.page # initialPage )
           => items' = ( IF sLast'.n = 0 THEN items
                         ELSE Append(items, Chunk(sLast'.page, sLast'.n)) ) ]_vars
    /\ [][ items' # items => ( PageSettled /\ sLast'.op = "resolve" ) ]_vars
    /\ [][ ~IsPrefix(items, items') => sLast'.page = initialPage ]_vars

\* A later page was appended after the first page.
C20_Witness ==
    /\ sLast.op = "resolve"
    /\ sLast.page = 3
    /\ Len(items) = 3
    /\ items[1].page = initialPage

\* C30: on a freshly created Paginator the first loadMore requests
\* initialPage; a loadMore made after the previous one was answered with a
\* non-empty page requests the next page; and each such answer is appended
\* to items, so the pages follow one another from initialPage with none
\* skipped or repeated.
C30_LoadMoreFromInitialPage ==
    /\ [][ ( sCalls = 0 /\ sLast'.op = "loadMore" /\ sFetches' # sFetches )
           => sLast'.page = initialPage ]_vars
    /\ [][ ( /\ serial'
             /\ sLast.op = "resolve" /\ sLast.n > 0
             /\ sLast'.op = "loadMore" /\ sFetches' # sFetches )
           => sLast'.page = sLast.page + 1 ]_vars
    /\ [][ ( /\ serial
             /\ sLast.op = "loadMore" /\ sLast.invoked
             /\ sLast'.op = "resolve" /\ sLast'.n > 0
             /\ items # <<>> )
           => items' = Append(items, Chunk(sLast.page, sLast'.n)) ]_vars

\* ============================================= apiRequest (utils/api.js)
NoToken == "null"
Tokens == {"t1"}

\* The exported API functions modelled: one that passes requiresAuth = false,
\* one that passes no customConfig, one that passes { headers: {} }.
ApiFunctions == {"login", "getCurrentUser", "getHistory"}

\* The fourth argument of apiRequest (default true).
RequiresAuthOf(f) == f # "login"

\* The fifth argument of apiRequest (default {}): whether it has an own
\* headers property, and that object's entries.
CustomConfigOf(f) ==
    IF f = "getHistory" THEN [hasHeaders |-> TRUE, headers |-> {}]
    ELSE [hasHeaders |-> FALSE, headers |-> {}]

\* A header is << name, scheme, value >>.
ContentTypeJson == << "Content-Type", "", "application/json" >>
Bearer(tok) == << "Authorization", "Bearer", tok >>

\* { ...base, ...over } on header objects: a later property replaces an
\* earlier one of the same name.
Spread(base, over) ==
    { h \in base : \A o \in over : o[1] # h[1] } \cup over

\* const headers = { 'Content-Type': ..., ...customConfig.headers }, then the
\* Authorization property.
BuildHeaders(f, tok) ==
    LET h0 == Spread({ContentTypeJson}, CustomConfigOf(f).headers)
    IN  IF RequiresAuthOf(f) /\ tok # NoToken
        THEN Spread(h0, {Bearer(tok)})
        ELSE h0

\* const config = { method, headers, ...customConfig }: the headers that
\* fetch is given.
ConfigHeaders(f, tok) ==
    IF CustomConfigOf(f).hasHeaders THEN CustomConfigOf(f).headers
    ELSE BuildHeaders(f, tok)

Statuses == {200, 204, 401, 403, 404, 429, 500}

\* response.ok
ResponseOk(status) == status >= 200 /\ status <= 299

\* What the response carries: a JSON body with a message field, a JSON body
\* without one, a content-type of JSON over a body that does not parse (an
\* empty body for instance), or a non-JSON body.
Bodies == {"json_message", "json_plain", "json_unparseable", "text"}
IsJson(body) == body \in {"json_message", "json_plain", "json_unparseable"}
\* responseData.message is truthy
HasMessage(body) == body = "json_message"

BodyMessage == "m1"
GenericMessage == "An error occurred with the API request"
NetworkMessage == "Network error: Could not connect to the server"
StatusMessage(status) ==
    CASE status = 401 -> "Unauthorized: Please log in again"
      [] status = 403 -> "Forbidden: You do not have permission"
      [] status = 404 -> "Not found: The requested resource does not exist"
      [] status = 429 -> "Too many requests: Please try again later"
      [] OTHER -> GenericMessage

NoRequest == [fn |-> "none", token |-> NoToken, headers |-> {}]
NoAnswer == [op |-> "none", status |-> 0, body |-> "none", kind |-> "none",
             errStatus |-> 0, message |-> "none", payload |-> "none",
             tokenBefore |-> NoToken]

Returned(status, body, payload) ==
    [op |-> "response", status |-> status, body |-> body, kind |-> "return",
     errStatus |-> 0, message |-> "none", payload |-> payload,
     tokenBefore |-> token]

\* throw new APIError(message, errStatus, ...)
Thrown(op, status, body, errStatus, message) ==
    [op |-> op, status |-> status, body |-> body, kind |-> "throw",
     errStatus |-> errStatus, message |-> message, payload |-> "none",
     tokenBefore |-> token]

\* The REST wrapper's variables while a hook is exercised.
ApiIdle ==
    /\ token = NoToken
    /\ aPending = {}
    /\ aReq = NoRequest
    /\ aLast = NoAnswer
    /\ aCount = 0

ApiInit ==
    /\ token \in Tokens \cup {NoToken}
    /\ aPending = {}
    /\ aReq = NoRequest
    /\ aLast = NoAnswer
    /\ aCount = 0

\* A login elsewhere in the application stores a token.
StoreToken(tok) ==
    /\ token = NoToken
    /\ token' = tok
    /\ UNCHANGED << aPending, aReq, aLast, aCount, callVars, pollVars,
                    pageVars, requiresAuth, isAuthenticated >>

\* apiRequest up to await fetch(url, config).
apiRequest(f) ==
    /\ aCount < MaxRequests
    /\ aCount' = aCount + 1
    /\ aReq' = [fn |-> f, token |-> token, headers |-> ConfigHeaders(f, token)]
    /\ aPending' = aPending \cup {aCount + 1}
    /\ UNCHANGED << token, aLast, callVars, pollVars, pageVars,
                    requiresAuth, isAuthenticated >>

\* fetch resolves with a response: the rest of the try block, and the catch
\* block for what the try block throws.
ApiResponse(r, status, body) ==
    /\ r \in aPending
    /\ aPending' = aPending \ {r}
    /\ IF status = 204
       THEN /\ aLast' = Returned(status, body, "success")
            /\ UNCHANGED token
       ELSE IF body = "json_unparseable"
       THEN \* response.json() rejects; the catch block wraps the error
            /\ aLast' = Thrown("response", status, body, 0, NetworkMessage)
            /\ UNCHANGED token
       ELSE IF ~ResponseOk(status)
       THEN /\ token' = IF status = 401 THEN NoToken ELSE token
            /\ aLast' = Thrown("response", status, body, status,
                               IF status \in {401, 403, 404, 429}
                               THEN StatusMessage(status)
                               ELSE IF IsJson(body) /\ HasMessage(body)
                                    THEN BodyMessage
                                    ELSE GenericMessage)
       ELSE /\ aLast' = Returned(status, body, body)
            /\ UNCHANGED token
    /\ UNCHANGED << aReq, aCount, callVars, pollVars, pageVars,
                    requiresAuth, isAuthenticated >>

\* fetch rejects: no response arrived.
ApiNetworkFailure(r) ==
    /\ r \in aPending
    /\ aPending' = aPending \ {r}
    /\ aLast' = Thrown("failure", 0, "none", 0, NetworkMessage)
    /\ UNCHANGED << token, aReq, aCount, callVars, pollVars, pageVars,
                    requiresAuth, isAuthenticated >>

StoreTokenStep == \E tok \in Tokens : StoreToken(tok)
ApiRequestStep == \E f \in ApiFunctions : apiRequest(f)
ApiResponseStep ==
    \E r \in aPending, status \in Statuses, body \in Bodies :
        ApiResponse(r, status, body)
ApiFailureStep == \E r \in aPending : ApiNetworkFailure(r)

\* ================================================= apiRequest properties
\* C23: a response is mapped to an outcome by its status: 204 returns
\* success without payload; 401 throws the authentication error and removes
\* the stored token; 403, 404 and 429 throw their errors carrying that
\* status; any other non-2xx status throws a generic error whose message is
\* the JSON body's message field when there is one; the token is removed on
\* 401 only.
C23_StatusMapping ==
    /\ [] ( aLast.op = "response"
            => /\ aLast.status = 204
                  => ( aLast.kind = "return" /\ aLast.payload = "success" )
               /\ aLast.status \in {401, 403, 404, 429}
                  => ( /\ aLast.kind = "throw"
                       /\ aLast.errStatus = aLast.status
                       /\ aLast.message = StatusMessage(aLast.status) )
               /\ aLast.status = 401 => token = NoToken
               /\ ( ~ResponseOk(aLast.status)
                    /\ aLast.status \notin {401, 403, 404, 429} )
                  => ( /\ aLast.kind = "throw"
                       /\ aLast.errStatus = aLast.status
                       /\ aLast.body = "json_message"
                          => aLast.message = BodyMessage ) )
    /\ [][ ( token # NoToken /\ token' = NoToken )
           => ( aLast'.op = "response" /\ aLast'.status = 401 ) ]_vars

\* C24: a request for an operation that requires authentication, made while
\* a token is stored, is handed to fetch with Authorization: Bearer <token>,
\* whichever API function made it.
C24_BearerOnEveryAuthRequest ==
    ( /\ aReq.fn \in ApiFunctions
      /\ RequiresAuthOf(aReq.fn)
      /\ aReq.token # NoToken )
    => Bearer(aReq.token) \in aReq.headers

\* ========================================================= specifications
InitCall ==
    /\ CallInit
    /\ MountIdle
    /\ requiresAuth \in BOOLEAN
    /\ isAuthenticated \in BOOLEAN
    /\ PollIdle
    /\ PageIdle
    /\ ApiIdle

NextCall ==
    \/ ExecuteStep
    \/ ResolveStep
    \/ RejectStep
    \/ reset
    \/ ClearCacheCall
    \/ Tick
    \/ AuthChange

SpecCall == InitCall /\ [][NextCall]_vars

\* Every invocation of the wrapped operation eventually settles.
SpecCallFair == SpecCall /\ WF_vars(ResolveStep \/ RejectStep)

\* A Call Controller at its first render, before its effects have run.
InitMount ==
    /\ CallInit
    /\ loadOnMount \in BOOLEAN
    /\ attached = FALSE
    /\ autoCalls = 0
    /\ renders = 0
    /\ requiresAuth \in BOOLEAN
    /\ isAuthenticated \in BOOLEAN
    /\ PollIdle
    /\ PageIdle
    /\ ApiIdle

NextMount ==
    \/ Attach
    \/ RerenderStep
    \/ AuthChange
    \/ ResolveStep
    \/ RejectStep
    \/ Tick

SpecMount == InitMount /\ [][NextMount]_vars

InitPoll ==
    /\ PollInit
    /\ requiresAuth \in BOOLEAN
    /\ isAuthenticated \in BOOLEAN
    /\ CallIdle
    /\ PageIdle
    /\ ApiIdle

NextPoll ==
    \/ Mount
    \/ Render
    \/ DependencyChange
    \/ PollAuthChange
    \/ startPolling
    \/ stopPolling
    \/ TickStep
    \/ PollResolveStep
    \/ PollRejectStep
    \/ Unmount

SpecPoll == InitPoll /\ [][NextPoll]_vars

InitPage ==
    /\ PageInit
    /\ requiresAuth = FALSE
    /\ isAuthenticated = TRUE
    /\ CallIdle
    /\ PollIdle
    /\ ApiIdle

NextPage ==
    \/ loadMore
    \/ refresh
    \/ PageRender
    \/ PageResolveStep
    \/ PageRejectStep

SpecPage == InitPage /\ [][NextPage]_vars

InitApi ==
    /\ ApiInit
    /\ requiresAuth = FALSE
    /\ isAuthenticated = TRUE
    /\ CallIdle
    /\ PollIdle
    /\ PageIdle

NextApi ==
    \/ StoreTokenStep
    \/ ApiRequestStep
    \/ ApiResponseStep
    \/ ApiFailureStep

SpecApi == InitApi /\ [][NextApi]_vars

====
